---- MODULE Spec2Model ----
(***************************************************************************)
(* Model of vosk_recognition.py: the audio callback (producer thread)      *)
(* putting blocks on MicrophoneStream.buff, the generator that drains and  *)
(* coalesces them, get_asr_result that feeds the recognizer inside the     *)
(* `with input_stream` block, and the console loop of main.                *)
(***************************************************************************)
EXTENDS Integers, Sequences, FiniteSets, TLC

\* ---- bounds of the model ------------------------------------------------
\* number of items ever put on the queue
MaxPush == 4
\* number of iterations of the `while True` loop of main
MaxIter == 2

\* ---- values ---------------------------------------------------------------
\* Python's None as a queue item: the end-of-stream sentinel of the generator
None == [none |-> TRUE, bytes |-> <<>>]

\* a bytes object as a queue item
Chunk(b) == [none |-> FALSE, bytes |-> b]

\* the blocks the device may deliver to the callback (byte strings)
Blocks == {<<1>>, <<2, 3>>}

\* the stop phrase compared at line 125
StopPhrase == <<"o", "w">>

\* the "text" fields the recognizer may report (tokens separated by spaces)
RawTexts == {<<"o", " ", "w">>, <<"o", "w">>, <<"h", "i">>}

\* values of recog_result / of one call of get_asr_result
Unbound == [kind |-> "unbound", text |-> <<>>]
PyNone == [kind |-> "None", text |-> <<>>]
Str(t) == [kind |-> "str", text |-> t]
Raised == [kind |-> "raise", text |-> <<>>]
NoCall == [kind |-> "nocall", text |-> <<>>]

\* ---- pure helpers ---------------------------------------------------------
RECURSIVE Join(_)
\* b"".join(data)
Join(data) == IF data = <<>> THEN <<>> ELSE Head(data) \o Join(Tail(data))

RECURSIVE RemoveSpaces(_)
\* "".join(text.split())
RemoveSpaces(t) ==
  IF t = <<>> THEN <<>>
  ELSE IF Head(t) = " " THEN RemoveSpaces(Tail(t))
       ELSE <<Head(t)>> \o RemoveSpaces(Tail(t))

\* the bytes of the chunks of a sequence of queue items, sentinel skipped
RECURSIVE ItemBytes(_)
ItemBytes(items) ==
  IF items = <<>> THEN <<>>
  ELSE (IF Head(items).none THEN <<>> ELSE Head(items).bytes) \o ItemBytes(Tail(items))

IsPrefix(s, t) == Len(s) <= Len(t) /\ SubSeq(t, 1, Len(s)) = s

\* ---- state ----------------------------------------------------------------
VARIABLES
  buff,          \* self.buff: the queue.Queue, head first
  streams,       \* every RawInputStream created so far: its state and close() calls
  input_stream,  \* self.input_stream: index into streams, 0 for None
  gpc,           \* position of the generator: "get", "drain", "yield", "done"
  data,          \* the generator's local list `data`
  content,       \* the loop variable `content` of get_asr_result
  pc,            \* position of the main thread
  iter,          \* iterations of main's loop started so far
  ret,           \* outcome of the current call of get_asr_result
  recog_result,  \* main's local recog_result
  printed,       \* what line 124 printed last
  pushed,        \* history: every item ever put on the queue
  popped,        \* history: every item ever taken from the queue
  yielded,       \* history: every buffer the generators yielded
  atPull,        \* history: the queue as it was when the current pull began
  stderr         \* number of status lines the callback printed to sys.stderr

vars == <<buff, streams, input_stream, gpc, data, content, pc, iter, ret,
          recog_result, printed, pushed, popped, yielded, atPull, stderr>>

mainVars == <<pc, iter, ret, recog_result, printed>>
genVars == <<gpc, data, content, popped, yielded, atPull>>
devVars == <<streams, input_stream>>

\* MicrophoneStream.__init__ and main up to line 110
Init ==
  /\ buff = <<>>
  /\ streams = <<>>
  /\ input_stream = 0
  /\ gpc = "none"
  /\ data = <<>>
  /\ content = <<>>
  /\ pc = "loop"
  /\ iter = 0
  /\ ret = NoCall
  /\ recog_result = Unbound
  /\ printed = NoCall
  /\ pushed = <<>>
  /\ popped = <<>>
  /\ yielded = <<>>
  /\ atPull = <<>>
  /\ stderr = 0

\* ---- producer thread ------------------------------------------------------
\* the device is delivering blocks: the stream has been started and not stopped
Active == input_stream # 0 /\ streams[input_stream].st = "active"

\* callback as it would be with a LIFO queue: the block goes to the head
callbackLifo(indata, status) ==
  /\ Active
  /\ Len(pushed) < MaxPush
  /\ stderr' = IF status THEN stderr + 1 ELSE stderr
  /\ buff' = <<Chunk(indata)>> \o buff
  /\ pushed' = Append(pushed, Chunk(indata))
  /\ UNCHANGED <<mainVars, genVars, devVars>>

\* callback as it would be with queue.Queue(maxsize=1): the put waits while
\* the queue is full
callbackBounded(indata, status) ==
  /\ Active
  /\ Len(pushed) < MaxPush
  /\ Len(buff) < 1
  /\ stderr' = IF status THEN stderr + 1 ELSE stderr
  /\ buff' = Append(buff, Chunk(indata))
  /\ pushed' = Append(pushed, Chunk(indata))
  /\ UNCHANGED <<mainVars, genVars, devVars>>

\* callback as it would be if a status made it return before the put
callbackDropsOnStatus(indata, status) ==
  /\ Active
  /\ Len(pushed) < MaxPush
  /\ stderr' = IF status THEN stderr + 1 ELSE stderr
  /\ buff' = IF status THEN buff ELSE Append(buff, Chunk(indata))
  /\ pushed' = IF status THEN pushed ELSE Append(pushed, Chunk(indata))
  /\ UNCHANGED <<mainVars, genVars, devVars>>

\* MicrophoneStream.callback(indata, frames, time, status): a status is
\* printed to sys.stderr, and the block is put on the queue either way
callback(indata, status) ==
  /\ Active
  /\ Len(pushed) < MaxPush
  /\ stderr' = IF status THEN stderr + 1 ELSE stderr
  /\ buff' = Append(buff, Chunk(indata))
  /\ pushed' = Append(pushed, Chunk(indata))
  /\ UNCHANGED <<mainVars, genVars, devVars>>

\* ---- generator ------------------------------------------------------------
\* the blocking get as it would be without the test for None: the marker
\* starts an accumulation like a chunk
GenGetNoMarkerTest ==
  /\ pc = "for"
  /\ gpc = "get"
  /\ buff # <<>>
  /\ buff' = Tail(buff)
  /\ popped' = Append(popped, Head(buff))
  /\ gpc' = "drain"
  /\ data' = <<Head(buff).bytes>>
  /\ UNCHANGED <<content, yielded, atPull, pc, iter, ret, recog_result, printed,
                 pushed, devVars>>
  /\ UNCHANGED stderr

\* the blocking get as it would be if None were skipped instead of ending
\* the generator
GenGetSkipsMarker ==
  /\ pc = "for"
  /\ gpc = "get"
  /\ buff # <<>>
  /\ buff' = Tail(buff)
  /\ popped' = Append(popped, Head(buff))
  /\ IF Head(buff).none
       THEN gpc' = "get" /\ data' = data
       ELSE gpc' = "drain" /\ data' = <<Head(buff).bytes>>
  /\ UNCHANGED <<content, yielded, atPull, pc, iter, ret, recog_result, printed,
                 pushed, devVars>>
  /\ UNCHANGED stderr

\* lines 52-55: chunk = self.buff.get(); return on None, else data = [chunk]
GenGet ==
  /\ pc = "for"
  /\ gpc = "get"
  /\ buff # <<>>
  /\ buff' = Tail(buff)
  /\ popped' = Append(popped, Head(buff))
  /\ IF Head(buff).none
       THEN gpc' = "done" /\ data' = data
       ELSE gpc' = "drain" /\ data' = <<Head(buff).bytes>>
  /\ UNCHANGED <<content, yielded, atPull, pc, iter, ret, recog_result, printed,
                 pushed, devVars>>

  /\ UNCHANGED stderr
\* the inner loop as it would be without draining: the first chunk is yielded
\* alone, whatever else is queued
GenNowaitNoDrain ==
  /\ pc = "for"
  /\ gpc = "drain"
  /\ gpc' = "yield"
  /\ content' = Join(data)
  /\ yielded' = Append(yielded, Join(data))
  /\ pc' = "accept"
  /\ UNCHANGED <<buff, data, popped>>
  /\ UNCHANGED <<atPull, iter, ret, recog_result, printed, pushed, devVars>>

  /\ UNCHANGED stderr
\* the inner loop as it would be with a blocking get(): it waits on an empty
\* queue instead of breaking
GenNowaitBlocking ==
  /\ pc = "for"
  /\ gpc = "drain"
  /\ buff # <<>>
  /\ buff' = Tail(buff)
  /\ popped' = Append(popped, Head(buff))
  /\ IF Head(buff).none
       THEN gpc' = "done" /\ data' = data
       ELSE gpc' = "drain" /\ data' = Append(data, Head(buff).bytes)
  /\ UNCHANGED <<content, yielded, pc>>
  /\ UNCHANGED <<atPull, iter, ret, recog_result, printed, pushed, devVars>>

  /\ UNCHANGED stderr
\* the inner loop as it would be with data.insert(0, chunk): later chunks go
\* in front of earlier ones
GenNowaitPrepend ==
  /\ pc = "for"
  /\ gpc = "drain"
  /\ IF buff = <<>>
       THEN /\ gpc' = "yield"
            /\ content' = Join(data)
            /\ yielded' = Append(yielded, Join(data))
            /\ pc' = "accept"
            /\ UNCHANGED <<buff, data, popped>>
       ELSE /\ buff' = Tail(buff)
            /\ popped' = Append(popped, Head(buff))
            /\ IF Head(buff).none
                 THEN gpc' = "done" /\ data' = data
                 ELSE gpc' = "drain" /\ data' = <<Head(buff).bytes>> \o data
            /\ UNCHANGED <<content, yielded, pc>>
  /\ UNCHANGED <<atPull, iter, ret, recog_result, printed, pushed, devVars>>
  /\ UNCHANGED stderr

\* lines 58-68: one turn of the inner loop, with the yield that follows its break
GenNowait ==
  /\ pc = "for"
  /\ gpc = "drain"
  /\ IF buff = <<>>
       THEN \* queue.Empty: break, then yield b"".join(data)
            /\ gpc' = "yield"
            /\ content' = Join(data)
            /\ yielded' = Append(yielded, Join(data))
            /\ pc' = "accept"
            /\ UNCHANGED <<buff, data, popped>>
       ELSE /\ buff' = Tail(buff)
            /\ popped' = Append(popped, Head(buff))
            /\ IF Head(buff).none
                 THEN gpc' = "done" /\ data' = data
                 ELSE gpc' = "drain" /\ data' = Append(data, Head(buff).bytes)
            /\ UNCHANGED <<content, yielded, pc>>
  /\ UNCHANGED <<atPull, iter, ret, recog_result, printed, pushed, devVars>>

  /\ UNCHANGED stderr
\* ---- get_asr_result -------------------------------------------------------
\* lines 77-78: mic_stream.open_stream() creates a new RawInputStream
OpenStream ==
  /\ pc = "call"
  /\ streams' = Append(streams, [st |-> "inactive", closes |-> 0])
  /\ input_stream' = Len(streams) + 1
  /\ pc' = "with"
  /\ UNCHANGED <<buff, genVars, iter, ret, recog_result, printed, pushed>>

  /\ UNCHANGED stderr
\* lines 79-81: __enter__ starts the stream, the generator object is created
\* and the for statement asks it for its first buffer
EnterWith ==
  /\ pc = "with"
  /\ streams' = [streams EXCEPT ![input_stream].st = "active"]
  /\ gpc' = "get"
  /\ data' = <<>>
  /\ atPull' = buff
  /\ pc' = "for"
  /\ UNCHANGED <<buff, input_stream, content, popped, yielded, iter, ret,
                 recog_result, printed, pushed>>

  /\ UNCHANGED stderr
\* the loop body as it would be without the `with` block: a return or an
\* exception leaves get_asr_result with the stream still open
AcceptWaveformNoWith(outcome, text) ==
  /\ pc = "accept"
  /\ CASE outcome = "more" ->
            /\ pc' = "for"
            /\ gpc' = "get"
            /\ atPull' = buff
            /\ ret' = ret
       [] outcome = "utterance" ->
            /\ pc' = "after_call"
            /\ ret' = Str(RemoveSpaces(text))
            /\ UNCHANGED <<gpc, atPull>>
       [] outcome = "raise" ->
            /\ pc' = "after_call"
            /\ ret' = Raised
            /\ UNCHANGED <<gpc, atPull>>
  /\ UNCHANGED <<buff, data, content, popped, yielded, iter, recog_result,
                 printed, pushed, devVars>>

  /\ UNCHANGED stderr
\* the loop body as it would be if the text were kept and the loop went on
\* instead of returning
AcceptWaveformKeepsReading(outcome, text) ==
  /\ pc = "accept"
  /\ CASE outcome = "more" ->
            /\ pc' = "for"
            /\ gpc' = "get"
            /\ atPull' = buff
            /\ ret' = ret
       [] outcome = "utterance" ->
            /\ pc' = "for"
            /\ gpc' = "get"
            /\ atPull' = buff
            /\ ret' = Str(RemoveSpaces(text))
       [] outcome = "raise" ->
            /\ pc' = "exit_with"
            /\ ret' = Raised
            /\ UNCHANGED <<gpc, atPull>>
  /\ UNCHANGED <<buff, data, content, popped, yielded, iter, recog_result,
                 printed, pushed, devVars>>
  /\ UNCHANGED stderr

\* lines 82-86: the recognizer takes the buffer; the outcomes are that it has
\* no utterance yet, that it has one with the given text, or that it raises
AcceptWaveform(outcome, text) ==
  /\ pc = "accept"
  /\ CASE outcome = "more" ->
            /\ pc' = "for"
            /\ gpc' = "get"
            /\ atPull' = buff
            /\ ret' = ret
       [] outcome = "utterance" ->
            /\ pc' = "exit_with"
            /\ ret' = Str(RemoveSpaces(text))
            /\ UNCHANGED <<gpc, atPull>>
       [] outcome = "raise" ->
            /\ pc' = "exit_with"
            /\ ret' = Raised
            /\ UNCHANGED <<gpc, atPull>>
  /\ UNCHANGED <<buff, data, content, popped, yielded, iter, recog_result,
                 printed, pushed, devVars>>

  /\ UNCHANGED stderr
\* lines 81 and 87: the generator is exhausted, the for loop ends, return None
ForExhausted ==
  /\ pc = "for"
  /\ gpc = "done"
  /\ ret' = PyNone
  /\ pc' = "exit_with"
  /\ UNCHANGED <<buff, genVars, iter, recog_result, printed, pushed, devVars>>

  /\ UNCHANGED stderr
\* the end of the block as it would be if the stream were left running
ExitWithLeavesRunning ==
  /\ pc = "exit_with"
  /\ pc' = "after_call"
  /\ UNCHANGED <<buff, streams, input_stream, genVars, iter, ret, recog_result,
                 printed, pushed>>
  /\ UNCHANGED stderr

\* line 79: __exit__ of the stream, on return and on exception alike
ExitWith ==
  /\ pc = "exit_with"
  /\ streams' = [streams EXCEPT ![input_stream] =
                   [st |-> "closed", closes |-> @.closes + 1]]
  /\ pc' = "after_call"
  /\ UNCHANGED <<buff, input_stream, genVars, iter, ret, recog_result,
                 printed, pushed>>

  /\ UNCHANGED stderr
\* ---- main -----------------------------------------------------------------
\* lines 111-114: a new iteration; the call of get_asr_result comes next
MainLoopTop ==
  /\ pc = "loop"
  /\ iter < MaxIter
  /\ iter' = iter + 1
  /\ ret' = NoCall
  /\ pc' = "call"
  /\ UNCHANGED <<buff, genVars, recog_result, printed, pushed, devVars>>

  /\ UNCHANGED stderr
\* lines 115-122: the assignment of the returned value, or `except ...: pass`
MainAssign ==
  /\ pc = "after_call"
  /\ recog_result' = IF ret.kind = "raise" THEN recog_result ELSE ret
  /\ pc' = "print"
  /\ UNCHANGED <<buff, genVars, iter, ret, printed, pushed, devVars>>

  /\ UNCHANGED stderr
\* lines 124-127: print the result and compare it with the stop phrase;
\* reading an unbound recog_result raises NameError out of main
MainPrint ==
  /\ pc = "print"
  /\ IF recog_result.kind = "unbound"
       THEN pc' = "crashed" /\ printed' = printed
       ELSE /\ printed' = recog_result
            /\ pc' = IF recog_result = Str(StopPhrase) THEN "finished" ELSE "loop"
  /\ UNCHANGED <<buff, genVars, iter, ret, recog_result, pushed, devVars>>

  /\ UNCHANGED stderr
\* ---- the program ----------------------------------------------------------
\* Nothing in the program puts None on the queue, so its generator is never
\* exhausted: ForExhausted is a step of the program fed a sentinel (NextEOS).
Next ==
  \/ \E indata \in Blocks, status \in BOOLEAN : callback(indata, status)
  \/ GenGet
  \/ GenNowait
  \/ OpenStream
  \/ EnterWith
  \/ \E outcome \in {"more", "utterance", "raise"}, text \in RawTexts :
       AcceptWaveform(outcome, text)
  \/ ExitWith
  \/ MainLoopTop
  \/ MainAssign
  \/ MainPrint

Spec == Init /\ [][Next]_vars

\* ---- the program fed an end-of-stream sentinel ----------------------------
\* the producer side ends the stream: the device stops delivering blocks and
\* None is put on the queue, the sentinel lines 53 and 61 test for
PushEndOfStream ==
  /\ Active
  /\ Len(pushed) < MaxPush
  /\ streams' = [streams EXCEPT ![input_stream].st = "stopped"]
  /\ buff' = Append(buff, None)
  /\ pushed' = Append(pushed, None)
  /\ UNCHANGED <<input_stream, mainVars, genVars>>

  /\ UNCHANGED stderr
NextEOS == Next \/ PushEndOfStream \/ ForExhausted

SpecEOS == Init /\ [][NextEOS]_vars

\* ---- properties -----------------------------------------------------------
\* C1: when the non-blocking pop returns the end-of-stream marker while `data`
\* holds chunks, the generator yields the merged accumulation before it
\* terminates: the step that ends the inner loop on the marker adds
\* b"".join(data) to the buffers yielded.
C1_MarkerYieldsAccumulation ==
  [][(gpc = "drain" /\ gpc' = "done") => yielded' = Append(yielded, Join(data))]_vars

\* C2: chunks were pushed and then the marker, and the generator has taken
\* the marker and terminated: the bytes of all the buffers yielded number as
\* many as the bytes of all the chunks pushed.
C2_TotalBytesPreserved ==
  (gpc = "done" /\ buff = <<>> /\ pushed # <<>> /\ pushed[Len(pushed)] = None)
    => Len(Join(yielded)) = Len(ItemBytes(pushed))

\* the current stream goes from open to closed in this step
Closing ==
  /\ input_stream # 0
  /\ streams[input_stream].st # "closed"
  /\ streams'[input_stream].st = "closed"

\* C3: closing the capture session enqueues the end-of-stream marker (which is
\* what would unblock a consumer waiting in the blocking pop): after the step
\* that closes the stream, None is the last item of the queue.
C3_CloseEnqueuesMarker ==
  [][Closing => (buff' # <<>> /\ buff'[Len(buff')] = None)]_vars

\* C4: the queue is FIFO: the items popped so far, followed by the items still
\* queued, are the items pushed so far in push order; so the pops return the
\* pushes in push order, and the generator terminates on the marker only
\* after every chunk pushed before it has been popped.
C4_Fifo ==
  /\ popped \o buff = pushed
  /\ gpc = "done" => (popped # <<>> /\ popped[Len(popped)] = None)

\* C4 witness: two different chunks and then the marker have been popped
C4_Witness ==
  /\ gpc = "done"
  /\ Len(popped) = 3
  /\ popped[1] # popped[2]
  /\ ~popped[1].none /\ ~popped[2].none

\* the queue held k >= 1 chunks and no marker when the current pull began
ChunksAtPull == atPull # <<>> /\ \A i \in DOMAIN atPull : ~atPull[i].none

\* C5: if k >= 1 chunks and no marker are queued when a pull begins, the pull
\* ends with one buffer that begins with the k chunks joined in arrival order:
\* until it yields, the k chunks are all in `data` or still queued behind it,
\* the pull does not end without a buffer, and the buffer it yields begins
\* with them.
C5_QueuedChunksInOneBuffer ==
  ChunksAtPull =>
    /\ pc = "for" => gpc \in {"get", "drain"}
    /\ (pc = "for" /\ gpc = "get") => IsPrefix(atPull, buff)
    /\ (pc = "for" /\ gpc = "drain") =>
         IsPrefix(ItemBytes(atPull), Join(data) \o ItemBytes(buff))
    /\ pc = "accept" =>
         /\ IsPrefix(ItemBytes(atPull), content)
         /\ yielded[Len(yielded)] = content

\* C5 witness: a pull that began with two chunks queued has yielded them joined
C5_Witness ==
  /\ pc = "accept"
  /\ Len(atPull) = 2
  /\ atPull[1] # atPull[2]
  /\ content = ItemBytes(atPull)

\* C6: the generator waits only in its first pop on an empty queue: while it
\* is being pulled it can always take a step unless it is at the blocking get
\* with nothing queued, and holding a chunk with nothing queued its one
\* possible step is to yield b"".join(data) at once.
C6_WaitsOnlyInFirstPop ==
  /\ (pc = "for" /\ gpc \in {"get", "drain"} /\ ~ENABLED (GenGet \/ GenNowait))
       => (gpc = "get" /\ buff = <<>>)
  /\ (pc = "for" /\ gpc = "drain" /\ buff = <<>>)
       => /\ ENABLED (GenNowait /\ gpc' = "yield" /\ content' = Join(data))
          /\ ~ENABLED (GenNowait /\ gpc' # "yield")

\* C6 witness: push(b1), pull, push(b2), pull gave b1 and b2 as two buffers
C6_Witness ==
  /\ pushed = <<Chunk(<<1>>), Chunk(<<2, 3>>)>>
  /\ yielded = << <<1>>, <<2, 3>> >>
  /\ pc = "accept"

\* C7: every stream opened is closed exactly once and on every exit path: at
\* most one stream is not closed at any time, no stream is closed twice, and
\* once get_asr_result has returned or raised every stream created has been
\* closed once.
C7_StreamClosedOnce ==
  /\ Cardinality({i \in DOMAIN streams : streams[i].st # "closed"}) <= 1
  /\ \A i \in DOMAIN streams :
       /\ streams[i].closes <= 1
       /\ streams[i].st = "closed" <=> streams[i].closes = 1
  /\ pc \in {"after_call", "print", "loop", "finished", "crashed"} =>
       \A i \in DOMAIN streams : streams[i].st = "closed" /\ streams[i].closes = 1

\* C7 witness: a second session has been left by an exception after a first
\* one was left because the generator was exhausted
C7_Witness ==
  /\ pc = "after_call"
  /\ ret = Raised
  /\ recog_result = PyNone
  /\ Len(streams) = 2

\* C8: the queue is empty when a capture session starts: nothing is queued
\* when the stream just created is about to be started.
C8_QueueEmptyAtSessionStart ==
  pc = "with" => buff = <<>>

\* C9: a recognition-engine error swallowed by main never ends the process:
\* from the print that follows it, main goes on to the next loop iteration.
C9_ErrorStartsNextIteration ==
  [][(pc = "print" /\ ret = Raised) => pc' = "loop"]_vars

\* C10: every iteration of main runs one capture session, prints that
\* iteration's result, and leaves the loop exactly when that result is the
\* stop phrase: after the print of an iteration there are as many streams as
\* iterations, the value printed is the outcome of this iteration's call, and
\* main has left the loop iff that outcome is the stop phrase.
C10_LoopLeftOnStopPhraseOnly ==
  (iter > 0 /\ pc \in {"loop", "finished", "crashed"}) =>
    /\ Len(streams) = iter
    /\ printed = ret
    /\ pc # "loop" <=> ret = Str(StopPhrase)

\* C11: the callback's push is never blocked or refused by the queue or the
\* consumer: whenever the device is delivering blocks (and the model's bound
\* on pushes is not reached), the callback can run for every block and status,
\* and appends the block, whatever the queue holds and wherever the consumer is.
C11_PushNeverBlocked ==
  (Active /\ Len(pushed) < MaxPush) =>
    \A indata \in Blocks, status \in BOOLEAN :
      ENABLED (callback(indata, status) /\ buff' = Append(buff, Chunk(indata)))

\* C11 witness: the device is delivering while three chunks are queued unread
C11_Witness ==
  /\ Active
  /\ Len(pushed) < MaxPush
  /\ Len(buff) = 3

\* the main thread is between the start of the stream and its close
InSession == pc \in {"for", "accept", "exit_with"}

\* C12: nothing is written to the queue after the session is closed: every
\* step that puts an item on the queue is taken while the current stream is
\* started and not closed and the main thread is inside the with block.
C12_NoWriteAfterClose ==
  [][(pushed' # pushed \/ Len(buff') > Len(buff)) => (Active /\ InSession)]_vars

\* C12 witness: a session was closed with a chunk still queued, and the next
\* one has not been started
C12_Witness ==
  /\ pc \in {"after_call", "print", "loop", "call", "with"}
  /\ streams # <<>>
  /\ streams[input_stream].st \in {"closed", "inactive"}
  /\ buff # <<>>

\* C13: coalescing never reorders or duplicates data: the buffers yielded so
\* far, joined in the order they were yielded, are a prefix of the bytes of
\* the chunks pushed so far, joined in push order.
C13_YieldedIsPrefixOfPushed ==
  IsPrefix(Join(yielded), ItemBytes(pushed))

\* C13 witness: two buffers have been yielded, one of them coalescing two
\* different chunks
C13_Witness ==
  /\ Len(yielded) = 2
  /\ \E i \in DOMAIN yielded : yielded[i] \in {<<1, 2, 3>>, <<2, 3, 1>>}

\* C14: once the generator has dequeued the end-of-stream marker it
\* terminates: the step that pops the marker ends the generator without a
\* yield, and a terminated generator pops nothing and yields nothing more
\* (the next pops are those of the generator created by the next session).
C14_MarkerEndsGenerator ==
  [][/\ (popped' # popped /\ popped'[Len(popped')].none)
          => (gpc' = "done" /\ yielded' = yielded)
     /\ gpc = "done" => (popped' = popped /\ yielded' = yielded)
     /\ (gpc = "done" /\ gpc' # "done") => (pc = "with" /\ gpc' = "get")]_vars

\* C14 witness: one generator met the marker in the non-blocking pop, holding
\* a chunk, and the generator of the next session met one in the blocking pop
C14_Witness ==
  /\ gpc = "done"
  /\ yielded = <<>>
  /\ Len(popped) = 3
  /\ ~popped[1].none /\ popped[2].none /\ popped[3].none

\* C15: a device status on a block is not fatal: every callback, with or
\* without a status, appends exactly one chunk holding the block's bytes and
\* leaves the stream and the main thread as they are; a status adds one line
\* to stderr and nothing else, and no line is printed without a chunk put.
C15_StatusIsOnlyAWarning ==
  [][/\ stderr' # stderr =>
          /\ stderr' = stderr + 1
          /\ \E b \in Blocks : /\ buff' = Append(buff, Chunk(b))
                               /\ pushed' = Append(pushed, Chunk(b))
          /\ UNCHANGED <<streams, input_stream, pc, gpc, data, popped, yielded>>
     /\ (pushed' # pushed /\ stderr' = stderr) =>
          \E b \in Blocks : /\ buff' = Append(buff, Chunk(b))
                            /\ pushed' = Append(pushed, Chunk(b))]_vars

\* C15 witness: three blocks were delivered, two of them with a status; all
\* three were queued and the stream is still delivering
C15_Witness ==
  /\ stderr = 2
  /\ Len(pushed) = 3
  /\ Active

\* C16: get_asr_result stops reading at the first buffer that completes an
\* utterance: its result becomes a text only in the step where the recognizer
\* accepts the buffer just yielded, and that text is the recognizer's with the
\* blanks removed; it becomes None only when the generator has terminated and
\* no buffer of this call completed an utterance; and once the result is set
\* the call pops nothing more from the queue and pulls no further buffer.
C16_StopsAtFirstUtterance ==
  [][/\ (ret' # ret /\ ret'.kind = "str") =>
          /\ pc = "accept" /\ pc' = "exit_with"
          /\ ret = NoCall
          /\ content = yielded[Len(yielded)]
          /\ \E t \in RawTexts : ret'.text = RemoveSpaces(t)
     /\ (ret' # ret /\ ret' = PyNone) =>
          (pc = "for" /\ gpc = "done" /\ ret = NoCall /\ pc' = "exit_with")
     /\ ret.kind \in {"str", "None"} =>
          (popped' = popped /\ yielded' = yielded /\ pc' # "for")]_vars

\* C16 witness: the second buffer of a call completed an utterance and the
\* call returned although a chunk was still queued
C16_Witness ==
  /\ pc = "after_call"
  /\ ret.kind = "str"
  /\ Len(yielded) = 2
  /\ Len(streams) = 1
  /\ buff # <<>>

\* C17: on an iteration of main in which a recognition-engine error was
\* swallowed, the value printed is not the text of an earlier utterance: after
\* the print of such an iteration, what was printed is not a recognized text.
C17_NoStaleTextAfterError ==
  (ret = Raised /\ pc \in {"loop", "finished"}) => printed.kind # "str"

\* the chunks among the items popped so far
PoppedChunks == {i \in DOMAIN popped : ~popped[i].none}

\* C18: every buffer yielded is the concatenation of at least one dequeued
\* chunk and never the marker: no buffer yielded is empty, there are at most
\* as many buffers as chunks dequeued, and the buffer handed to the recognizer
\* is the join of a non-empty `data`.
C18_BufferHasAChunk ==
  /\ \A i \in DOMAIN yielded : yielded[i] # <<>>
  /\ Len(yielded) <= Cardinality(PoppedChunks)
  /\ pc = "accept" => (data # <<>> /\ content = Join(data) /\ content # <<>>)

\* C18 witness: a generator that had yielded a buffer then met the marker in
\* its blocking pop, and yielded nothing for it
C18_Witness ==
  /\ gpc = "done"
  /\ pc = "for"
  /\ Len(yielded) = 1
  /\ Len(popped) = 2
  /\ popped[2].none

====
